---- MODULE Spec2Model ----
(***************************************************************************)
(* bungee-rs: the safe wrappers Stretcher (src/src/stretcher.rs) and       *)
(* Stream (src/src/stream.rs) over the bungee-sys bindings                 *)
(* (src/bungee-sys/src/*.rs), and the file-streaming driver                *)
(* (src/examples/stream-file.rs).                                          *)
(*                                                                         *)
(* The Bungee engine behind the bindings is an external collaborator: it   *)
(* is modelled by what the bindings and their documentation say of it,     *)
(* with every value it is free to choose drawn nondeterministically.       *)
(*                                                                         *)
(* Numbers.  A usize is 64 bits wide and a c_int 32 bits, and the wrappers *)
(* convert between them with `as`.  A usize is modelled as four 16-bit     *)
(* limbs <<l3, l2, l1, l0>> (most significant first) so that values such   *)
(* as 2^32 exist in the model; c_int and isize values are integers.  An    *)
(* f64 frame count is modelled as a number of half frames, or as NaN.      *)
(***************************************************************************)
EXTENDS Integers, Sequences, FiniteSets, TLC

\* ------------------------------------------------------------------ bounds
\* Channel counts given to the constructors and buffer counts given to
\* process range over 0..MaxChannels.
MaxChannels == 2
\* Caller buffers hold 1..MaxBufLen samples; frame counts range accordingly.
MaxBufLen == 2
\* Successful process calls per Stream (caps the position counters).
MaxCalls == 2
\* Grain operations forwarded per Stretcher (caps the operation counter).
MaxGrainOps == 6
\* Grain operations called out of order per Stretcher.
MaxMisuse == 1
\* The input file of the driver holds up to MaxBlocks full blocks, and
\* possibly one frame more.
MaxBlocks == 1
NumThreads == 3
MaxUses == 2

\* ------------------------------------------------------------ usize, c_int
\* One limb of a usize holds 16 bits.
Limb == 65536

\* The usize with the value n, 0 <= n < 2^31.
U(n) == <<0, 0, n \div Limb, n % Limb>>

\* 2^32 as a usize: the smallest value whose low 32 bits are all zero.
TwoPow32 == <<0, 1, 0, 0>>

\* (as `a <= b` in the place of `a < b` would be)
UsizeLess_OrEqual(a, b) ==
    a = b \/ \E i \in 1..4 : a[i] < b[i] /\ \A j \in 1..(i - 1) : a[j] = b[j]
UsizeLess(a, b) ==
    \E i \in 1..4 : a[i] < b[i] /\ \A j \in 1..(i - 1) : a[j] = b[j]

UsizeLeq(a, b) == a = b \/ UsizeLess(a, b)

\* a + b on 64 bits (the carry out of the top limb is dropped).
UsizeAdd(a, b) ==
    LET s4 == a[4] + b[4]
        s3 == a[3] + b[3] + (s4 \div Limb)
        s2 == a[2] + b[2] + (s3 \div Limb)
        s1 == a[1] + b[1] + (s2 \div Limb)
    IN  <<s1 % Limb, s2 % Limb, s3 % Limb, s4 % Limb>>

\* `x as i32` for a usize x: the low 32 bits, read as two's complement.
AsI32(u) ==
    IF u[3] < Limb \div 2 THEN u[3] * Limb + u[4]
                          ELSE (u[3] - Limb) * Limb + u[4]

\* `x as usize` for a c_int x: sign extension to 64 bits.
CIntAsUsize(i) ==
    IF i >= 0 THEN <<0, 0, i \div Limb, i % Limb>>
              ELSE <<Limb - 1, Limb - 1, (i \div Limb) + Limb, i % Limb>>

\* `x as isize` for a c_int x: sign extension keeps the value.
CIntAsIsize(i) == i

\* ------------------------------------------------------------------- f64
\* An f64: NaN, or a number of half frames.
NaN == [nan |-> TRUE, half |-> 0]
F64(h) == [nan |-> FALSE, half |-> h]
IsNaN(x) == x.nan
\* (as `!(x <= 0.0)` would be: NaN passes)
GtZero_NotLeq(x) == IsNaN(x) \/ x.half > 0
\* x > 0.0 (false for NaN, as every comparison with NaN is).
GtZero(x) == ~IsNaN(x) /\ x.half > 0
\* floor(x) and ceil(x) of a number x, in frames.
Floor(x) == x.half \div 2
Ceil(x) == (x.half + 1) \div 2
\* `x.ceil() as usize`: NaN and negative values saturate to 0.
CeilAsUsize(x) == IF IsNaN(x) \/ x.half <= 0 THEN U(0) ELSE U(Ceil(x))

\* ------------------------------------------------------------ input sets
\* Sample rates: 0, an ordinary rate, and 2^32 (non-zero, low 32 bits zero).
SampleRateValues == {U(0), U(44100), TwoPow32}
ChannelCounts == 0..MaxChannels
\* max_input_frame_count given to Stream::new.
MaxInputValues == {U(MaxBufLen)}
\* input_frame_count given to process: 0, a full buffer, and 2^32 + 1.
InputFrameCounts == {U(0), U(MaxBufLen), UsizeAdd(TwoPow32, U(1))}
\* output_frame_count given to process: NaN, 0, MaxBufLen - 0.5, MaxBufLen.
OutputFrameCounts == {NaN, F64(0), F64(2 * MaxBufLen - 1), F64(2 * MaxBufLen)}
Pitches == {F64(2)}
\* Caller buffers: one length per channel, every channel MaxBufLen samples
\* long except the last, which may be one sample short; the buffer of
\* channel c lives at address base + c.
ChannelBufs ==
    {l \in UNION {[1..n -> {MaxBufLen - 1, MaxBufLen}] : n \in 1..MaxChannels} :
        \A c \in 1..(Len(l) - 1) : l[c] = MaxBufLen}
InBases == {10}
OutBases == {30}
NULL == 0

\* ------------------------------------------------------------------ state
VARIABLES
    heap,        \* engine instances ever created; a handle is an index, 0 is null
    stretcher,   \* the caller's Stretcher (src/src/stretcher.rs:10-14)
    stream,      \* the caller's Stream (src/src/stream.rs:11-17)
    engIn,       \* the engine stream's input position (c_int)
    engLatency,  \* the engine stream's latency, in half frames
    engOut,      \* the engine stream's output position, in half frames
    submitted,   \* exact sum of the input_frame_count of the calls that returned
    nCalls,      \* number of process calls that returned
    proto,       \* where the grain protocol of section 4.1 stands for the Stretcher
    nOps,        \* number of grain operations forwarded to the engine
    request,     \* the caller's Request, passed to the grain operations
    grain,       \* the grain in progress: the engine's hop, the chunk specified
    op,          \* the last operation called
    args,        \* its arguments
    outcome,     \* "ok", "err", "panic" or "crash" ("none" before the first)
    ret,         \* its return value
    calls,       \* the engine calls it made, in order
    drv,         \* the file-streaming driver (src/examples/stream-file.rs)
    thr,         \* what each thread is calling on the shared Stream and Stretcher
    table        \* the process-wide function table BUNGEE_FUNCTIONS (src/src/lib.rs)

vars == <<heap, stretcher, stream, engIn, engLatency, engOut, submitted, nCalls,
          proto, nOps, request, grain, op, args, outcome, ret, calls, drv,
          thr, table>>

NoStretcher == [status |-> "none", inner |-> NULL, sample_rate |-> U(0),
                num_channels |-> 0]
NoStream == [status |-> "none", stretcher |-> NoStretcher, stream |-> NULL,
             input_pointers |-> <<>>, output_pointers |-> <<>>]

\* struct Request (lib.rs:28-46) and struct InputChunk (lib.rs:73-78).
NoRequest == [position |-> F64(0), speed |-> F64(2), pitch |-> F64(2), reset |-> FALSE]
NoGrain == [hop |-> 1, chunk |-> [begin |-> 0, end |-> 0], initial |-> F64(0),
            cycles |-> 0, misuse |-> 0]

\* No thread is inside a call on the shared Stream or Stretcher, and neither
\* value has been given up for its drop.
NoCall == [object |-> "none", method |-> "none"]
NoThreads == [running |-> [t \in 1..NumThreads |-> NoCall], moved |-> {}]

\* BUNGEE_FUNCTIONS has not been used: its Once is incomplete, and no thread
\* has started a use.
NoResult == [kind |-> "none", table |-> 0, msg |-> ""]
NoUse == [pc |-> "idle", waited |-> FALSE, seen |-> NoResult, uses |-> 0]
NoTable == [once |-> "incomplete", value |-> 0, lookups |-> 0,
            user |-> [t \in 1..NumThreads |-> NoUse], results |-> {}]

Init ==
    /\ heap = <<>>
    /\ stretcher = NoStretcher
    /\ stream = NoStream
    /\ engIn = 0
    /\ engLatency = F64(0)
    /\ engOut = F64(0)
    /\ submitted = U(0)
    /\ nCalls = 0
    /\ proto = "Uninitialized"
    /\ nOps = 0
    /\ request = NoRequest
    /\ grain = NoGrain
    /\ op = "none"
    /\ args = <<>>
    /\ outcome = "none"
    /\ ret = <<>>
    /\ calls = <<>>
    /\ drv = [pc |-> "idle"]
    /\ thr = NoThreads
    /\ table = NoTable

\* ------------------------------------------------------------ the engine
\* What maxInputFrameCount() may report for an engine created with the
\* given rates and channel count: positive for a valid configuration; for a
\* configuration the engine is not defined for, any c_int.
EngineMaxInputFrameCounts(sample_rates, channel_count) ==
    IF sample_rates.input > 0 /\ sample_rates.output > 0 /\ channel_count > 0
    THEN {MaxBufLen}
    ELSE {-1, 0, MaxBufLen}

\* The input frames the engine advances by per grain at speed 1.
EngineHops == {2}

Instance(kind, sample_rates, channel_count, owned, mifc) ==
    [kind |-> kind, destroyed |-> 0, sample_rates |-> sample_rates,
     channel_count |-> channel_count, stretcher |-> owned, maxIn |-> mifc]

\* bungee_sys::stretcher::create: a new engine instance, or null when the
\* engine cannot allocate one (alloc = FALSE).
stretcher_create(h, sample_rates, channel_count, log2_synthesis_hop_adjust, alloc, mifc) ==
    IF alloc
    THEN [heap |-> Append(h, Instance("stretcher", sample_rates, channel_count, NULL, mifc)),
          handle |-> Len(h) + 1]
    ELSE [heap |-> h, handle |-> NULL]

\* bungee_sys::stretcher::destroy: delete stretcher.
stretcher_destroy(h, handle) == [h EXCEPT ![handle].destroyed = @ + 1]

\* (as a stream built on the Stretcher the caller passes would be)
stream_create_OnCallersStretcher(h, inner, sample_rates, channel_count, max_input_frame_count, alloc, mifc) ==
    IF alloc
    THEN [heap |-> Append(h, Instance("stream", sample_rates, channel_count, inner, mifc)),
          handle |-> Len(h) + 1]
    ELSE [heap |-> h, handle |-> NULL]

\* bungee_sys::stream::create, as Stream::new calls it.  The caller passes
\* the handle of its own Stretcher; the body allocates a Stretcher of its
\* own and builds the stream on that one.  Null when the engine cannot
\* allocate (alloc = FALSE).
stream_create(h, inner, sample_rates, channel_count, max_input_frame_count, alloc, mifc) ==
    IF alloc
    THEN LET h1 == Append(h, Instance("stretcher", sample_rates, channel_count, NULL, mifc))
             h2 == Append(h1, Instance("stream", sample_rates, channel_count, Len(h1), mifc))
         IN  [heap |-> h2, handle |-> Len(h2)]
    ELSE [heap |-> h, handle |-> NULL]

\* bungee_sys::stream::destroy: delete &stream->stretcher(); delete stream.
stream_destroy(h, handle) ==
    [h EXCEPT ![h[handle].stretcher].destroyed = @ + 1,
              ![handle].destroyed = @ + 1]

\* --------------------------------------------------------- Stretcher::new
\* (as the checks would be without the one of lines 32-34)
InvalidArgument_RateOnly(sample_rate, num_channels) ==
    IF sample_rate = U(0) THEN "Invalid sample rate" ELSE ""
\* Stretcher::new, lines 29-34: the error of the argument checks ("" when
\* both pass).
InvalidArgument(sample_rate, num_channels) ==
    IF sample_rate = U(0) THEN "Invalid sample rate"
    ELSE IF num_channels = 0 THEN "Invalid channel count"
    ELSE ""

\* The Result of Stretcher::new, with the heap after it and the engine
\* calls it made.
Stretcher_new(h, sample_rate, num_channels, alloc, mifc) ==
    IF InvalidArgument(sample_rate, num_channels) # ""
    THEN [ok |-> FALSE, err |-> InvalidArgument(sample_rate, num_channels), heap |-> h,
          value |-> NoStretcher, calls |-> <<>>]
    ELSE
      LET sample_rates == [input |-> AsI32(sample_rate), output |-> AsI32(sample_rate)]
          log2_hop_adjust == 0
          c == stretcher_create(h, sample_rates, AsI32(U(num_channels)),
                                log2_hop_adjust, alloc, mifc)
          made == <<[fn |-> "stretcher::create", sample_rates |-> sample_rates,
                     channel_count |-> AsI32(U(num_channels)), result |-> c.handle]>>
      IN  IF c.handle = NULL
          THEN [ok |-> FALSE, err |-> "Failed to create Bungee stretcher",
                heap |-> c.heap, value |-> NoStretcher, calls |-> made]
          ELSE [ok |-> TRUE, err |-> "", heap |-> c.heap,
                value |-> [status |-> "live", inner |-> c.handle,
                           sample_rate |-> sample_rate, num_channels |-> num_channels],
                calls |-> made]

\* ------------------------------------------------------------ Stream::new
Stream_new(h, sample_rate, num_channels, max_input_frame_count, alloc1, mifc, alloc2) ==
    LET r == Stretcher_new(h, sample_rate, num_channels, alloc1, mifc)
    IN  IF ~r.ok
        THEN [ok |-> FALSE, err |-> r.err, heap |-> r.heap, value |-> NoStream,
              calls |-> r.calls]
        ELSE
          LET s == stream_create(r.heap, r.value.inner,
                                 [input |-> AsI32(sample_rate), output |-> AsI32(sample_rate)],
                                 AsI32(U(num_channels)), AsI32(max_input_frame_count),
                                 alloc2, mifc)
          IN  [ok |-> TRUE, err |-> "", heap |-> s.heap,
               value |-> [status |-> "live", stretcher |-> r.value, stream |-> s.handle,
                          input_pointers |-> [c \in 1..num_channels |-> NULL],
                          output_pointers |-> [c \in 1..num_channels |-> NULL]],
               calls |-> r.calls \o
                         <<[fn |-> "stream::create", inner |-> r.value.inner,
                            channel_count |-> AsI32(U(num_channels)),
                            max_input_frame_count |-> AsI32(max_input_frame_count),
                            result |-> s.handle]>>]

\* No object of the caller exists yet, and the process has not died.  After
\* a panic the stack unwinds: the only thing that then happens to an object
\* is its drop.
Fresh == stretcher.status = "none" /\ stream.status = "none" /\ outcome # "crash"

StretcherNew ==
    /\ Fresh
    /\ \E sample_rate \in SampleRateValues, num_channels \in ChannelCounts, alloc \in BOOLEAN :
         \E mifc \in EngineMaxInputFrameCounts(
                       [input |-> AsI32(sample_rate), output |-> AsI32(sample_rate)],
                       AsI32(U(num_channels))) :
           LET r == Stretcher_new(heap, sample_rate, num_channels, alloc, mifc)
           IN  /\ heap' = r.heap
               /\ stretcher' = r.value
               /\ op' = "Stretcher::new"
               /\ args' = [sample_rate |-> sample_rate, num_channels |-> num_channels]
               /\ outcome' = IF r.ok THEN "ok" ELSE "err"
               /\ ret' = r.err
               /\ calls' = r.calls
               /\ \E hop \in EngineHops :
                    grain' = IF r.ok THEN [NoGrain EXCEPT !.hop = hop] ELSE grain
    /\ UNCHANGED <<thr, table, drv, stream, engIn, engLatency, engOut, submitted, nCalls, proto, nOps, request>>

StreamNew ==
    /\ Fresh
    /\ \E sample_rate \in SampleRateValues, num_channels \in ChannelCounts,
          max_input_frame_count \in MaxInputValues, alloc1 \in BOOLEAN, alloc2 \in BOOLEAN :
         \E mifc \in EngineMaxInputFrameCounts(
                       [input |-> AsI32(sample_rate), output |-> AsI32(sample_rate)],
                       AsI32(U(num_channels))) :
           LET r == Stream_new(heap, sample_rate, num_channels, max_input_frame_count,
                               alloc1, mifc, alloc2)
           IN  /\ heap' = r.heap
               /\ stream' = r.value
               /\ op' = "Stream::new"
               /\ args' = [sample_rate |-> sample_rate, num_channels |-> num_channels]
               /\ outcome' = IF r.ok THEN "ok" ELSE "err"
               /\ ret' = r.err
               /\ calls' = r.calls
    /\ UNCHANGED <<thr, table, drv, stretcher, engIn, engLatency, engOut, submitted, nCalls, proto, nOps, request, grain>>

\* ------------------------------------------------------------------ Drop
\* impl Drop for Stretcher.
Stretcher_drop(h, s) == stretcher_destroy(h, s.inner)

\* impl Drop for Stream: Stream::drop, then the fields are dropped, the
\* owned Stretcher among them.
Stream_drop(h, s) == Stretcher_drop(stream_destroy(h, s.stream), s.stretcher)

StretcherDrop ==
    /\ stretcher.status = "live"
    /\ outcome # "crash"
    /\ heap' = Stretcher_drop(heap, stretcher)
    /\ stretcher' = [stretcher EXCEPT !.status = "dropped"]
    /\ op' = "Stretcher::drop"
    /\ args' = <<>>
    /\ outcome' = "ok"
    /\ ret' = <<>>
    /\ calls' = <<[fn |-> "stretcher::destroy", handle |-> stretcher.inner,
                  freed |-> heap[stretcher.inner].destroyed > 0]>>
    /\ UNCHANGED <<thr, table, drv, stream, engIn, engLatency, engOut, submitted, nCalls, proto, nOps, request, grain>>

\* Dropping a Stream whose stream handle is null makes the engine
\* dereference a null pointer: the process dies in stream::destroy, before
\* the owned Stretcher is dropped.
StreamDrop ==
    /\ stream.status = "live"
    /\ outcome # "crash"
    /\ op' = "Stream::drop"
    /\ args' = <<>>
    /\ ret' = <<>>
    /\ IF stream.stream = NULL
       THEN /\ outcome' = "crash"
            /\ calls' = <<[fn |-> "stream::destroy", handle |-> NULL, freed |-> FALSE]>>
            /\ UNCHANGED <<heap, stream>>
       ELSE /\ outcome' = "ok"
            /\ heap' = Stream_drop(heap, stream)
            /\ stream' = [stream EXCEPT !.status = "dropped"]
            /\ calls' = <<[fn |-> "stream::destroy", handle |-> stream.stream,
                           freed |-> heap[stream.stream].destroyed > 0],
                          [fn |-> "stretcher::destroy", handle |-> stream.stretcher.inner,
                           freed |-> stream_destroy(heap, stream.stream)[
                                         stream.stretcher.inner].destroyed > 0]>>
    /\ UNCHANGED <<thr, table, drv, stretcher, engIn, engLatency, engOut, submitted, nCalls, proto, nOps, request, grain>>

\* --------------------------------------------------------- Stream::process
\* stream-file.rs, line 69.
input_block_size == 1024

\* The engine's latency report after a block, which is positive
\* (tests::stream_processing, line 206): half a frame, 1.5 frames, or a
\* block and a half.
LatencyValues == {F64(1), F64(3), F64(3 * input_block_size)}

\* The engine's dithering of a fractional output length: the first block of
\* a stream is rounded up (tests::stream_processing, line 202), a later one
\* either way (TRUE for ceil).
Dithers(blocks) == IF blocks = 0 THEN {TRUE} ELSE BOOLEAN

\* bungee_sys::stream::process: the number of frames the engine's block
\* driver rendered, floor(output_sample_count) or ceil(output_sample_count)
\* as its dithering decides (dither = TRUE for ceil).
stream_process(input_pointers, output_pointers, input_sample_count, output_sample_count, pitch, dither) ==
    IF dither THEN Ceil(output_sample_count) ELSE Floor(output_sample_count)

\* The address of channel c of a caller buffer set.
AddressOf(bufs, c) == bufs.base + c

\* Stream::process, lines 104-110: the input pointer array after the call's
\* buffers were entered (zip stops at the shorter of the two).
\* (as the loop of lines 105-107 alone would be, without the fill of line 109)
FillInputPointers_NoClear(input_pointers, input_channels) ==
    [c \in 1..Len(input_pointers) |->
        IF input_channels.present /\ c <= Len(input_channels.lens)
        THEN AddressOf(input_channels, c) ELSE input_pointers[c]]
FillInputPointers(input_pointers, input_channels) ==
    IF input_channels.present
    THEN [c \in 1..Len(input_pointers) |->
            IF c <= Len(input_channels.lens) THEN AddressOf(input_channels, c)
                                             ELSE input_pointers[c]]
    ELSE [c \in 1..Len(input_pointers) |-> NULL]

\* Stream::process, lines 128-130.
FillOutputPointers(output_pointers, output_channels) ==
    [c \in 1..Len(output_pointers) |->
        IF c <= Len(output_channels.lens) THEN AddressOf(output_channels, c)
                                          ELSE output_pointers[c]]

\* (as `output_frame_count.floor() as usize` would be)
required_output_len_floor(output_frame_count) ==
    IF IsNaN(output_frame_count) \/ output_frame_count.half <= 0
    THEN U(0) ELSE U(Floor(output_frame_count))
\* Stream::process, line 118.
required_output_len(output_frame_count) == CeilAsUsize(output_frame_count)

\* Stream::process, lines 135-139: the input argument given to the engine.
InputArgument(input_channels, input_pointers) ==
    IF ~input_channels.present THEN [null |-> TRUE, array |-> <<>>]
                               ELSE [null |-> FALSE, array |-> input_pointers]

\* Stream::process up to the engine call: the assertion that fails, if
\* any, and the pointer arrays as they stand when it fails or when the
\* engine is called.
Stream_process(self, input_channels, output_channels, input_frame_count, output_frame_count, pitch) ==
    LET num_channels == self.stretcher.num_channels
        ins == FillInputPointers(self.input_pointers, input_channels)
        outs == FillOutputPointers(self.output_pointers, output_channels)
        Panic(msg, ip, opp) ==
            [panic |-> TRUE, msg |-> msg, input_pointers |-> ip, output_pointers |-> opp]
    IN  IF ~UsizeLess(U(0), input_frame_count)
        THEN Panic("invalid input frame count", self.input_pointers, self.output_pointers)
        ELSE IF ~GtZero(output_frame_count)
        THEN Panic("invalid output frame count", self.input_pointers, self.output_pointers)
        ELSE IF input_channels.present /\ Len(input_channels.lens) # num_channels
        THEN Panic("input_channels slice count must match stream channel count",
                   self.input_pointers, self.output_pointers)
        ELSE IF /\ input_channels.present
                /\ \E c \in 1..Len(input_channels.lens) :
                     ~UsizeLeq(input_frame_count, U(input_channels.lens[c]))
        THEN Panic("input channel is less than input_frame_count",
                   self.input_pointers, self.output_pointers)
        ELSE IF Len(output_channels.lens) # num_channels
        THEN Panic("output_channels slice count must match stream channel count",
                   ins, self.output_pointers)
        ELSE IF \E c \in 1..Len(output_channels.lens) :
                  ~UsizeLeq(required_output_len(output_frame_count),
                            U(output_channels.lens[c]))
        THEN Panic("output channel is less than required output frame count",
                   ins, self.output_pointers)
        ELSE [panic |-> FALSE, msg |-> "", input_pointers |-> ins, output_pointers |-> outs]

NoInput == [present |-> FALSE, lens |-> <<>>, base |-> NULL]

InputChoices ==
    {NoInput} \cup {[present |-> TRUE, lens |-> l, base |-> b] : l \in ChannelBufs, b \in InBases}
OutputChoices ==
    {[present |-> TRUE, lens |-> l, base |-> b] : l \in ChannelBufs, b \in OutBases}

\* One call of Stream::process on the caller's Stream, from entry to return,
\* panic or death of the process, with every variable it can change.
ProcessCall(input_channels, output_channels, input_frame_count, output_frame_count, pitch) ==
    LET r == Stream_process(stream, input_channels, output_channels,
                            input_frame_count, output_frame_count, pitch)
        call == [fn |-> "stream::process", handle |-> stream.stream,
                 freed |-> IF stream.stream = NULL THEN FALSE
                           ELSE heap[stream.stream].destroyed > 0,
                 input_pointers |-> InputArgument(input_channels, r.input_pointers),
                 output_pointers |-> r.output_pointers,
                 input_sample_count |-> AsI32(input_frame_count),
                 output_sample_count |-> output_frame_count,
                 pitch |-> pitch]
    IN  /\ op' = "Stream::process"
        /\ args' = [input_channels |-> input_channels,
                    output_channels |-> output_channels,
                    input_frame_count |-> input_frame_count,
                    output_frame_count |-> output_frame_count,
                    pitch |-> pitch]
        /\ stream' = [stream EXCEPT !.input_pointers = r.input_pointers,
                                    !.output_pointers = r.output_pointers]
        /\ IF r.panic
           THEN /\ outcome' = "panic"
                /\ ret' = r.msg
                /\ calls' = <<>>
                /\ UNCHANGED <<engIn, engLatency, engOut, submitted, nCalls>>
           ELSE IF stream.stream = NULL
           THEN \* the engine dereferences a null stream: the process dies
                /\ outcome' = "crash"
                /\ ret' = <<>>
                /\ calls' = <<call>>
                /\ UNCHANGED <<engIn, engLatency, engOut, submitted, nCalls>>
           ELSE /\ outcome' = "ok"
                /\ \E dither \in Dithers(nCalls) :
                     ret' = CIntAsUsize(stream_process(call.input_pointers,
                              call.output_pointers, call.input_sample_count,
                              call.output_sample_count, call.pitch, dither))
                /\ calls' = <<call>>
                /\ engIn' = engIn + call.input_sample_count
                /\ \E l \in LatencyValues : engLatency' = l
                /\ engOut' = F64(engOut.half + call.output_sample_count.half)
                /\ submitted' = UsizeAdd(submitted, input_frame_count)
                /\ nCalls' = nCalls + 1

StreamProcess ==
    /\ stream.status = "live"
    /\ outcome \notin {"crash", "panic"}
    /\ nCalls < MaxCalls
    /\ \E input_channels \in InputChoices, output_channels \in OutputChoices,
          input_frame_count \in InputFrameCounts,
          output_frame_count \in OutputFrameCounts, pitch \in Pitches :
         ProcessCall(input_channels, output_channels, input_frame_count,
                     output_frame_count, pitch)
    /\ UNCHANGED <<thr, table, drv, heap, stretcher, proto, nOps, request, grain>>

\* Stream::input_position.
input_position == CIntAsIsize(engIn)

\* Stream::output_position, in half frames.
output_position == engOut

\* Stretcher::max_input_frame_count of the Stretcher s.
max_input_frame_count(s) == CIntAsUsize(heap[s.inner].maxIn)

\* (as `latency() as usize as f64` would be: the fraction is cut off)
latency_Truncated == F64(2 * (engLatency.half \div 2))
\* Stream::latency, in half frames.
latency == engLatency

\* ------------------------------------------------------ grain operations
\* The grain protocol of the Stretcher: the state an operation leads to
\* when it is called in order.
GrainOps == {"preroll", "specify_grain", "analyse_grain", "synthesise_grain", "next"}

InOrder(state, operation) ==
    \/ state = "Uninitialized" /\ operation = "preroll"
    \/ state \in {"Prerolled", "Advanced"} /\ operation = "specify_grain"
    \/ state = "Specified" /\ operation = "analyse_grain"
    \/ state = "Analysed" /\ operation = "synthesise_grain"
    \/ state = "Synthesised" /\ operation = "next"

After(operation) ==
    CASE operation = "preroll" -> "Prerolled"
      [] operation = "specify_grain" -> "Specified"
      [] operation = "analyse_grain" -> "Analysed"
      [] operation = "synthesise_grain" -> "Synthesised"
      [] operation = "next" -> "Advanced"

\* Stretcher::preroll, specify_grain, analyse_grain, synthesise_grain and
\* next: each converts its arguments and calls the engine function of the
\* same name on self.inner; none looks at what was called before.
Forwarded(self, operation) ==
    <<[fn |-> "stretcher::" \o operation, handle |-> self.inner,
       freed |-> heap[self.inner].destroyed > 0]>>

\* impl From<Request> for bungee_sys::Request.
Request_into_ffi(r) ==
    [position |-> r.position, speed |-> r.speed, pitch |-> r.pitch,
     reset |-> IF r.reset THEN 1 ELSE 0]

\* (as a conversion with the two leading fields exchanged would be)
Request_from_ffi_Swapped(ffi) ==
    [position |-> ffi.speed, speed |-> ffi.position, pitch |-> ffi.pitch,
     reset |-> ffi.reset # 0]
\* impl From<bungee_sys::Request> for Request.
Request_from_ffi(ffi) ==
    [position |-> ffi.position, speed |-> ffi.speed, pitch |-> ffi.pitch,
     reset |-> ffi.reset # 0]

\* (as a conversion that took `end` for the last frame of the chunk would be)
InputChunk_from_ffi_Inclusive(ffi) ==
    [begin |-> CIntAsIsize(ffi.begin), end |-> CIntAsIsize(ffi.end) + 1]
\* impl From<bungee_sys::InputChunk> for InputChunk.
InputChunk_from_ffi(ffi) ==
    [begin |-> CIntAsIsize(ffi.begin), end |-> CIntAsIsize(ffi.end)]

\* The input frames a grain advances by, in half frames: consecutive grains
\* lie speed * hop apart (Request::speed, lib.rs:34-37).
InputHop(ffi_request, hop) == ffi_request.speed.half * hop

\* bungee_sys::stretcher::preroll: the position is moved back by the run-in,
\* one grain's advance (a NaN position stays NaN).
stretcher_preroll(hop, ffi_request) ==
    IF IsNaN(ffi_request.position) THEN ffi_request
    ELSE [ffi_request EXCEPT
            !.position = F64(ffi_request.position.half - InputHop(ffi_request, hop))]

\* bungee_sys::stretcher::next: position and reset for the subsequent grain
\* (a NaN position stays NaN).
stretcher_next(hop, ffi_request) ==
    IF IsNaN(ffi_request.position) THEN [ffi_request EXCEPT !.reset = 0]
    ELSE [ffi_request EXCEPT
            !.position = F64(ffi_request.position.half + InputHop(ffi_request, hop)),
            !.reset = 0]

\* The chunk lengths the engine may ask for: none above maxInputFrameCount().
ChunkLengths(maxIn) == 0..(IF maxIn > 0 THEN maxIn ELSE 0)

\* bungee_sys::stretcher::specify_grain: the chunk of len frames the engine
\* needs, centred on the grain's position (empty for a NaN position).
stretcher_specify_grain(ffi_request, buffer_start_position, len) ==
    IF IsNaN(ffi_request.position) THEN [begin |-> 0, end |-> 0]
    ELSE LET first == Floor(ffi_request.position) - (len \div 2)
         IN  [begin |-> first, end |-> first + len]

\* (as a preroll without line 82 would be: the request is not written back)
Stretcher_preroll_NoWriteBack(hop, r) == r
\* Stretcher::preroll: the request after the call.
Stretcher_preroll(hop, r) == Request_from_ffi(stretcher_preroll(hop, Request_into_ffi(r)))

\* (as a next without line 122 would be: the request is not written back)
Stretcher_next_NoWriteBack(hop, r) == r
\* Stretcher::next: the request after the call.
Stretcher_next(hop, r) == Request_from_ffi(stretcher_next(hop, Request_into_ffi(r)))

\* Stretcher::specify_grain: the InputChunk returned.
Stretcher_specify_grain(r, len) ==
    LET buffer_start_pos == F64(0)
    IN  InputChunk_from_ffi(stretcher_specify_grain(Request_into_ffi(r), buffer_start_pos, len))

\* The length of an InputChunk: max(0, end - begin).
ChunkLen(chunk) == IF chunk.end > chunk.begin THEN chunk.end - chunk.begin ELSE 0

\* The samples a planar buffer of the given stride holds for a chunk of n
\* frames on each channel.
DataLen(num_channels, channel_stride, n) == (num_channels - 1) * channel_stride + n

\* The frames of a chunk that lie before the start of the track, which the
\* caller fills with silence.
SilentHead(chunk) ==
    IF chunk.begin >= 0 THEN 0
    ELSE IF chunk.end <= 0 THEN ChunkLen(chunk) ELSE 0 - chunk.begin

\* What a grain operation leaves of the protocol, the operation counter and
\* the last call, common to the five operations.
Grain(operation, a, r, extra) ==
    /\ stretcher.status = "live"
    /\ outcome \notin {"crash", "panic"}
    /\ nOps < MaxGrainOps
    /\ InOrder(proto, operation) \/ grain.misuse < MaxMisuse
    /\ op' = operation
    /\ args' = [state |-> proto] @@ a
    /\ outcome' = "ok"
    /\ ret' = r
    /\ calls' = <<Forwarded(stretcher, operation)[1] @@ extra>>
    /\ proto' = IF InOrder(proto, operation) THEN After(operation) ELSE "Undefined"
    /\ nOps' = nOps + 1
    /\ UNCHANGED <<thr, table, drv, heap, stretcher, stream, engIn, engLatency, engOut, submitted, nCalls>>

Misuse(operation) == IF InOrder(proto, operation) THEN 0 ELSE 1

\* The requests a caller starts from: a position before the track or at its
\* start; reverse, frozen, half and full speed.
RequestPositions == {F64(-200), F64(0)}
RequestSpeeds == {F64(-2), F64(0), F64(1), F64(2)}
Requests ==
    {[position |-> p, speed |-> s, pitch |-> q, reset |-> b] :
        p \in RequestPositions, s \in RequestSpeeds, q \in Pitches, b \in BOOLEAN}

\* stretcher.preroll(&mut request) on a request the caller has set up.
Preroll ==
    \E r \in Requests :
      /\ Grain("preroll", [request |-> r], Stretcher_preroll(grain.hop, r),
               [request |-> Request_into_ffi(r)])
      /\ request' = Stretcher_preroll(grain.hop, r)
      /\ grain' = [grain EXCEPT !.initial = r.position, !.cycles = 0,
                                !.misuse = @ + Misuse("preroll")]

\* stretcher.specify_grain(&request): the caller passes its request, or, to
\* flush, the request with a NaN position.
SpecifyGrain ==
    /\ stretcher.status = "live"
    /\ \E r \in {request, [request EXCEPT !.position = NaN]} :
      \E len \in ChunkLengths(heap[stretcher.inner].maxIn) :
        /\ Grain("specify_grain", [request |-> r], Stretcher_specify_grain(r, len),
                 [request |-> Request_into_ffi(r), buffer_start_position |-> F64(0)])
        /\ request' = r
        /\ grain' = [grain EXCEPT !.chunk = Stretcher_specify_grain(r, len),
                                  !.misuse = @ + Misuse("specify_grain")]

\* stretcher.analyse_grain(&mut data, channel_stride): the caller's buffer
\* holds the chunk on every channel, or a sample less; the frames of
\* the chunk before the start of the track are silence the caller put there.
AnalyseGrain ==
    /\ stretcher.status = "live"
    /\ LET n == ChunkLen(grain.chunk)
       IN  \E channel_stride \in {n, n + 1} :
             \E data_len \in {l \in {DataLen(stretcher.num_channels, channel_stride, n) + d :
                                        d \in {-1, 0}} : l >= 0} :
               Grain("analyse_grain",
                     [data_len |-> data_len, channel_stride |-> channel_stride,
                      chunk |-> grain.chunk,
                      mute_head |-> SilentHead(grain.chunk), mute_tail |-> 0],
                     <<>>,
                     [data_len |-> data_len, channel_stride |-> channel_stride,
                      mute_frame_count_head |-> 0, mute_frame_count_tail |-> 0])
    /\ grain' = [grain EXCEPT !.misuse = @ + Misuse("analyse_grain")]
    /\ UNCHANGED request

\* The engine's synthesiseGrain for channel_count channels: it points the
\* chunk at a buffer of its own in which channel n starts at
\* n * channel_stride and holds frame_count frames.
EngineFrameCounts == {0, 1, 2}
EngineStrides == {2}
stretcher_synthesise_grain(channel_count) ==
    {[data |-> [null |-> FALSE, len |-> channel_count * s],
      frame_count |-> f, channel_stride |-> s] :
        f \in EngineFrameCounts, s \in EngineStrides}

\* OutputChunk::from(bungee_sys::OutputChunk): the slice the wrapper makes
\* of the engine's pointer is frame_count * channel_stride samples long.
OutputChunk_from_ffi(ffi) ==
    LET data_len == IF ffi.frame_count > 0 /\ ffi.channel_stride > 0
                    THEN ffi.frame_count * ffi.channel_stride
                    ELSE 0
    IN  [data_len |-> IF data_len > 0 /\ ~ffi.data.null THEN U(data_len) ELSE U(0),
         frame_count |-> CIntAsUsize(ffi.frame_count),
         channel_stride |-> CIntAsUsize(ffi.channel_stride)]

\* bungee_sys::OutputChunk::from(&mut OutputChunk): what the engine is
\* handed of the caller's chunk.
OutputChunk_into_ffi(oc) ==
    [data |-> [null |-> oc.data_len = U(0), len |-> AsI32(oc.data_len)],
     frame_count |-> AsI32(oc.frame_count),
     channel_stride |-> AsI32(oc.channel_stride)]

\* OutputChunk::new(data, channel_stride)
OutputChunk_new(data_len, channel_stride) ==
    [data_len |-> U(data_len), frame_count |-> U(0), channel_stride |-> U(channel_stride)]

\* Stretcher::synthesise_grain, given the chunk the engine filled in.
Stretcher_synthesise_grain(ffi_output) == OutputChunk_from_ffi(ffi_output)

\* stretcher.synthesise_grain(&mut output) on a chunk of the caller's as
\* the repository's tests make it.
SynthesiseGrain ==
    /\ stretcher.status = "live"
    /\ \E ffi_output \in stretcher_synthesise_grain(stretcher.num_channels) :
         LET output == OutputChunk_new(MaxBufLen, 1)
         IN  Grain("synthesise_grain", [output |-> output],
                   Stretcher_synthesise_grain(ffi_output),
                   [output_chunk |-> OutputChunk_into_ffi(output), filled |-> ffi_output])
    /\ grain' = [grain EXCEPT !.misuse = @ + Misuse("synthesise_grain")]
    /\ UNCHANGED request

\* stretcher.next(&mut request).
NextGrain ==
    /\ Grain("next", [request |-> request], Stretcher_next(grain.hop, request),
             [request |-> Request_into_ffi(request)])
    /\ request' = Stretcher_next(grain.hop, request)
    /\ grain' = [grain EXCEPT !.cycles = IF InOrder(proto, "next") THEN @ + 1 ELSE @,
                              !.misuse = @ + Misuse("next")]

Next ==
    \/ StretcherNew
    \/ StreamNew
    \/ StretcherDrop
    \/ StreamDrop
    \/ StreamProcess
    \/ Preroll
    \/ SpecifyGrain
    \/ AnalyseGrain
    \/ SynthesiseGrain
    \/ NextGrain

Spec == Init /\ [][Next]_vars

\* ======================================== threads that share one instance
\* A Stream and a Stretcher are Send and Sync (stream.rs:19-20,
\* stretcher.rs:16-17): threads may hold references to the same value.  A
\* thread is inside at most one call; thr.running[t] is that call.

progVars == <<heap, stretcher, stream, engIn, engLatency, engOut, submitted, nCalls,
              proto, nOps, request, grain, op, args, outcome, ret, calls, drv>>

Objects == {"Stream", "Stretcher"}

\* The methods of each type and the receiver each is declared with.
Methods(object) ==
    IF object = "Stream"
    THEN {"process", "input_position", "output_position", "latency", "drop"}
    ELSE {"preroll", "specify_grain", "analyse_grain", "synthesise_grain", "next",
          "max_input_frame_count", "is_flushed", "drop"}

\* (as process would be declared on a type that locked inside)
Receiver_SharedProcess(object, method) ==
    IF method \in {"preroll", "specify_grain", "analyse_grain",
                   "synthesise_grain", "next", "drop"}
    THEN "&mut self" ELSE "&self"
Receiver(object, method) ==
    IF method \in {"process", "preroll", "specify_grain", "analyse_grain",
                   "synthesise_grain", "next", "drop"}
    THEN "&mut self" ELSE "&self"

\* Thread t enters a method of a shared value: a `&mut self` method needs
\* the only reference to the value, a `&self` method a shared one; drop
\* runs when the value is given up, once.
T_Call(t) ==
    /\ thr.running[t] = NoCall
    /\ \E object \in Objects :
        \E method \in Methods(object) :
          LET others == {u \in 1..NumThreads : u # t /\ thr.running[u].object = object}
          IN  /\ object \notin thr.moved
              /\ IF Receiver(object, method) = "&mut self"
                 THEN others = {}
                 ELSE \A u \in others :
                        Receiver(object, thr.running[u].method) = "&self"
              /\ thr' = [thr EXCEPT
                           !.running[t] = [object |-> object, method |-> method],
                           !.moved = IF method = "drop" THEN @ \cup {object} ELSE @]
    /\ UNCHANGED <<progVars, table>>

\* Thread t returns from the call it is in.
T_Return(t) ==
    /\ thr.running[t] # NoCall
    /\ thr' = [thr EXCEPT !.running[t] = NoCall]
    /\ UNCHANGED <<progVars, table>>

ThreadNext ==
    \/ \E t \in 1..NumThreads : T_Call(t)
    \/ \E t \in 1..NumThreads : T_Return(t)

ThreadSpec == Init /\ [][ThreadNext]_vars

\* ============================================ the engine's function table
\* BUNGEE_FUNCTIONS (lib.rs:7-24) is a lazy_static: its initializer runs
\* under a std::sync::Once on the first dereference.  table.once is the
\* state of that Once, table.value the table it holds (the number of the
\* lookup that returned it), table.lookups the calls of
\* getFunctionsBungeeBasic so far, table.user[t] where thread t stands in a
\* use (Stretcher::new of lib.rs:208-242 with valid arguments), and
\* table.results what the uses so far have come to.

Observed(value) == [kind |-> "ok", table |-> value, msg |-> ""]
Panicked(msg) == [kind |-> "panic", table |-> 0, msg |-> msg]

\* What a use comes to once the Once has settled.
Settled ==
    IF table.once = "complete" THEN Observed(table.value)
    ELSE Panicked("Once instance has previously been poisoned")

\* Thread t is done with a use that came to r.
Finish(t, r) ==
    [pc |-> "idle", waited |-> table.user[t].waited, seen |-> r,
     uses |-> table.user[t].uses + 1]

\* Whether a thread that finds the Once in this state runs the initializer.
\* (as a check of the state that is not atomic with taking it would be)
MayInitialize_Racy(once) == once \in {"incomplete", "running"}
MayInitialize(once) == once = "incomplete"

\* Thread t dereferences BUNGEE_FUNCTIONS.
T_Use(t) ==
    /\ table.user[t].pc = "idle"
    /\ table.user[t].uses < MaxUses
    /\ IF MayInitialize(table.once)
       THEN table' = [table EXCEPT !.once = "running", !.user[t].pc = "init"]
       ELSE IF table.once = "running"
       THEN table' = [table EXCEPT !.user[t].pc = "wait", !.user[t].waited = TRUE]
       ELSE table' = [table EXCEPT !.user[t] = Finish(t, Settled),
                                   !.results = @ \cup {Settled}]
    /\ UNCHANGED <<progVars, thr>>

\* lines 9-23: the initializer, run by the thread that took the Once.  A
\* null table makes it panic, which poisons the Once.
T_Lookup(t) ==
    /\ table.user[t].pc = "init"
    /\ \E null \in BOOLEAN :
         LET n == table.lookups + 1
             r == IF null THEN Panicked("Failed to get Bungee function table")
                          ELSE Observed(n)
         IN  table' = [table EXCEPT !.lookups = n,
                                    !.value = IF null THEN @ ELSE n,
                                    !.once = IF null THEN "poisoned" ELSE "complete",
                                    !.user[t] = Finish(t, r),
                                    !.results = @ \cup {r}]
    /\ UNCHANGED <<progVars, thr>>

\* A thread that waited for the initializer of another goes on.
T_Wake(t) ==
    /\ table.user[t].pc = "wait"
    /\ table.once # "running"
    /\ table' = [table EXCEPT !.user[t] = Finish(t, Settled),
                              !.results = @ \cup {Settled}]
    /\ UNCHANGED <<progVars, thr>>

TableNext ==
    \/ \E t \in 1..NumThreads : T_Use(t)
    \/ \E t \in 1..NumThreads : T_Lookup(t)
    \/ \E t \in 1..NumThreads : T_Wake(t)

TableSpec == Init /\ [][TableNext]_vars

\* ================================================= the file-streaming driver
\* main of src/examples/stream-file.rs.  drv.pc is where main stands:
\* "idle" (not started), "loop" (the process loop), "flush" (the flush
\* loop), "finish" (both loops done), "panicked", "crashed", "done".
\* Frame counts of the driver are small and kept as integers.

\* A usize known to be below 2^31, as an integer.
Small(u) == u[3] * Limb + u[4]
Min(a, b) == IF a <= b THEN a ELSE b

\* The speeds the user may give: 0.5, 1, 2, the boundary 0, and -0.5.
Speeds == {F64(-1), F64(0), F64(1), F64(2), F64(4)}
\* Frames in the input file.
FileFrames == {b * input_block_size + p : b \in 0..MaxBlocks, p \in {0, 1}}

\* n as f64 / speed, for speed > 0 (exact for the speeds above).
FramesOverSpeed(n, speed) == F64((4 * n) \div speed.half)

\* (latency / speed) as usize, for speed > 0: truncation.
LatencyOverSpeed(l, speed) == l.half \div speed.half

\* wav_write, lines 58-65: the number of frames pushed for the range
\* frame_offset..frame_count.
wav_write(frame_offset, frame_count) ==
    IF frame_count > frame_offset THEN frame_count - frame_offset ELSE 0

\* lines 38-41: the speed argument check.
SpeedAccepted(speed) == speed.half >= 0 /\ speed.half <= 200

\* A planar buffer set of n channels of len frames each.
Planar(n, len, base) == [present |-> TRUE, lens |-> [c \in 1..n |-> len], base |-> base]

DriverInit ==
    /\ Init

\* lines 28-81: the arguments, the input file, the block sizes, the stream
\* and the buffers.
D_Open ==
    /\ drv.pc = "idle"
    /\ \E speed \in Speeds, num_channels \in 1..MaxChannels, frames \in FileFrames,
          alloc1 \in BOOLEAN, alloc2 \in BOOLEAN :
         IF ~SpeedAccepted(speed)
         THEN /\ drv' = [pc |-> "done", result |-> "Invalid speed argument"]
              /\ UNCHANGED <<heap, stream, op, args, outcome, ret, calls>>
         ELSE
           LET r == Stream_new(heap, U(44100), num_channels, U(input_block_size),
                               alloc1, MaxBufLen, alloc2)
           IN  /\ heap' = r.heap
               /\ stream' = r.value
               /\ op' = "Stream::new"
               /\ args' = [sample_rate |-> U(44100), num_channels |-> num_channels]
               /\ outcome' = IF r.ok THEN "ok" ELSE "err"
               /\ ret' = r.err
               /\ calls' = r.calls
               /\ drv' =
                    IF ~r.ok THEN [pc |-> "done", result |-> r.err]
                    ELSE IF speed.half = 0
                    THEN \* 1024 / 0 is infinite: the output buffer cannot be allocated
                         [pc |-> "panicked", result |-> "capacity overflow"]
                    ELSE [pc |-> "loop", result |-> "",
                          speed |-> speed, pitch |-> F64(2),
                          num_channels |-> num_channels,
                          file |-> frames,
                          output_block_size |-> Ceil(FramesOverSpeed(input_block_size, speed)),
                          remaining_latency_frames |-> [some |-> FALSE, value |-> 0],
                          remaining_input_frames |-> 0,
                          phase |-> "none",
                          processed_frames |-> 0,
                          budget_before |-> [some |-> FALSE, value |-> 0],
                          exposed |-> 0,
                          discarded |-> 0,
                          initial_budget |-> 0,
                          computed |-> 0,
                          flush_budget |-> 0,
                          mute_submitted |-> 0]
    /\ UNCHANGED <<thr, table, stretcher, engIn, engLatency, engOut, submitted, nCalls, proto, nOps, request, grain>>

\* lines 83-124 and 127: one round of the process loop; the round that
\* ends the loop also sets up the flush loop.
D_Block ==
    /\ drv.pc = "loop"
    /\ LET frames_read == Min(input_block_size, drv.file)
           last == frames_read < input_block_size
       IN  IF frames_read > 0
           THEN /\ ProcessCall(Planar(drv.num_channels, input_block_size, 10),
                               Planar(drv.num_channels, drv.output_block_size, 30),
                               U(frames_read), FramesOverSpeed(frames_read, drv.speed),
                               drv.pitch)
                /\ drv' =
                     IF outcome' = "panic" THEN [drv EXCEPT !.pc = "panicked"]
                     ELSE IF outcome' = "crash" THEN [drv EXCEPT !.pc = "crashed"]
                     ELSE
                       LET processed_frames == Small(ret')
                           first == ~drv.remaining_latency_frames.some
                           remaining_frames_to_skip ==
                               IF first THEN LatencyOverSpeed(engLatency', drv.speed)
                                        ELSE drv.remaining_latency_frames.value
                           frames_to_skip == Min(remaining_frames_to_skip, processed_frames)
                       IN  [drv EXCEPT
                              !.file = @ - frames_read,
                              !.phase = "main",
                              !.processed_frames = processed_frames,
                              !.budget_before = [some |-> TRUE, value |-> remaining_frames_to_skip],
                              !.remaining_latency_frames =
                                  [some |-> TRUE, value |-> remaining_frames_to_skip - frames_to_skip],
                              !.exposed = wav_write(frames_to_skip, processed_frames),
                              !.discarded = @ + frames_to_skip,
                              !.initial_budget = IF first THEN remaining_frames_to_skip ELSE @,
                              !.computed = IF first THEN @ + 1 ELSE @,
                              !.pc = IF last THEN "flush" ELSE "loop",
                              !.remaining_input_frames =
                                  IF last THEN Ceil(engLatency') ELSE @,
                              !.flush_budget =
                                  IF last THEN Ceil(engLatency') ELSE @]
           ELSE IF stream.stream = NULL
           THEN \* stream.latency() of line 127 on a null stream: the process dies
                /\ drv' = [drv EXCEPT !.pc = "crashed"]
                /\ op' = "Stream::latency"
                /\ args' = <<>>
                /\ outcome' = "crash"
                /\ ret' = <<>>
                /\ calls' = <<[fn |-> "stream::latency", handle |-> NULL, freed |-> FALSE]>>
                /\ UNCHANGED <<stream, engIn, engLatency, engOut, submitted, nCalls>>
           ELSE /\ drv' = [drv EXCEPT !.pc = "flush",
                                      !.remaining_input_frames = Ceil(engLatency),
                                      !.flush_budget = Ceil(engLatency)]
                /\ UNCHANGED <<stream, engIn, engLatency, engOut, submitted, nCalls,
                               op, args, outcome, ret, calls>>
    /\ UNCHANGED <<thr, table, heap, stretcher, proto, nOps, request, grain>>

\* line 130: the input frames of one round of the flush loop.
\* (as a round that always submits a whole block would be)
FlushInputFrames_WholeBlock(remaining_input_frames) ==
    input_block_size
FlushInputFrames(remaining_input_frames) ==
    Min(remaining_input_frames, input_block_size)

\* lines 128-147: one round of the flush loop.
D_Flush ==
    /\ drv.pc = "flush"
    /\ LET input_frames == FlushInputFrames(drv.remaining_input_frames)
       IN  /\ ProcessCall(NoInput,
                          Planar(drv.num_channels, drv.output_block_size, 30),
                          U(input_frames), FramesOverSpeed(input_frames, drv.speed),
                          drv.pitch)
           /\ drv' =
                IF outcome' = "panic" THEN [drv EXCEPT !.pc = "panicked"]
                ELSE IF outcome' = "crash" THEN [drv EXCEPT !.pc = "crashed"]
                ELSE
                  LET processed_frames == Small(ret')
                      left == IF drv.remaining_input_frames > input_frames
                              THEN drv.remaining_input_frames - input_frames ELSE 0
                  IN  [drv EXCEPT
                         !.phase = "flush",
                         !.processed_frames = processed_frames,
                         !.budget_before = drv.remaining_latency_frames,
                         !.exposed = wav_write(0, processed_frames),
                         !.remaining_input_frames = left,
                         !.mute_submitted = @ + calls'[1].input_sample_count,
                         !.pc = IF left = 0 THEN "finish" ELSE "flush"]
    /\ UNCHANGED <<thr, table, heap, stretcher, proto, nOps, request, grain>>

\* lines 149-160, or the unwinding after a panic: main is left and the
\* stream is dropped.
D_Exit ==
    /\ drv.pc \in {"finish", "panicked"}
    /\ stream.status = "live"
    /\ IF stream.stream = NULL
       THEN /\ drv' = [drv EXCEPT !.pc = "crashed"]
            /\ outcome' = "crash"
            /\ calls' = <<[fn |-> "stream::destroy", handle |-> NULL, freed |-> FALSE]>>
            /\ UNCHANGED <<heap, stream>>
       ELSE /\ drv' = [drv EXCEPT !.pc = "done",
                                  !.result = IF drv.pc = "finish" THEN "Done." ELSE @]
            /\ outcome' = "ok"
            /\ heap' = Stream_drop(heap, stream)
            /\ stream' = [stream EXCEPT !.status = "dropped"]
            /\ calls' = <<[fn |-> "stream::destroy", handle |-> stream.stream,
                           freed |-> heap[stream.stream].destroyed > 0],
                          [fn |-> "stretcher::destroy", handle |-> stream.stretcher.inner,
                           freed |-> stream_destroy(heap, stream.stream)[
                                         stream.stretcher.inner].destroyed > 0]>>
    /\ op' = "Stream::drop"
    /\ args' = <<>>
    /\ ret' = <<>>
    /\ UNCHANGED <<thr, table, stretcher, engIn, engLatency, engOut, submitted, nCalls, proto, nOps, request, grain>>

DriverNext ==
    \/ D_Open
    \/ D_Block
    \/ D_Flush
    \/ D_Exit

DriverSpec == DriverInit /\ [][DriverNext]_vars

\* main runs on: a round of a loop that can be taken is taken.
DriverFairSpec == DriverSpec /\ WF_vars(DriverNext)

\* ================================================================ claims
ConstructorOps == {"Stretcher::new", "Stream::new"}

\* The Stretcher the last constructor call built (the Stream's own one for
\* Stream::new).
Built == IF op = "Stream::new" THEN stream.stretcher ELSE stretcher

\* The preconditions of Stream::process, as section 4.2 states them, of
\* the arguments a and a stream configured for n channels.
ProcessPreconditions(a, n) ==
    /\ a.input_frame_count # U(0)
    /\ ~IsNaN(a.output_frame_count)
    /\ a.output_frame_count.half > 0
    /\ a.input_channels.present =>
         /\ Len(a.input_channels.lens) = n
         /\ \A c \in 1..Len(a.input_channels.lens) :
              UsizeLeq(a.input_frame_count, U(a.input_channels.lens[c]))
    /\ Len(a.output_channels.lens) = n
    /\ \A c \in 1..Len(a.output_channels.lens) :
         Ceil(a.output_frame_count) <= a.output_channels.lens[c]

\* C1: a process call that violates any of its preconditions (zero
\* input_frame_count, output_frame_count not > 0, input of the wrong channel
\* count or with a channel shorter than input_frame_count, output of the
\* wrong channel count or with a channel shorter than
\* ceil(output_frame_count)) panics, and the engine is not called.
C1_ViolationPanics ==
    (op = "Stream::process" /\ ~ProcessPreconditions(args, stream.stretcher.num_channels))
        => (outcome = "panic" /\ calls = <<>>)

\* A call that fails only the output length check: a channel holds
\* floor(output_frame_count) samples, not ceil(output_frame_count).
C1_Witness ==
    /\ op = "Stream::process"
    /\ outcome = "panic"
    /\ ret = "output channel is less than required output frame count"
    /\ \E c \in 1..Len(args.output_channels.lens) :
         args.output_channels.lens[c] = Floor(args.output_frame_count)

\* C2: a process call that meets its preconditions and returns, returns
\* floor(output_frame_count) or ceil(output_frame_count): never more than
\* ceil(output_frame_count), and so never more than an output buffer holds.
C2_ReturnsFloorOrCeil ==
    (op = "Stream::process" /\ outcome = "ok") =>
        /\ ret \in {U(Floor(args.output_frame_count)), U(Ceil(args.output_frame_count))}
        /\ UsizeLeq(ret, U(Ceil(args.output_frame_count)))
        /\ \A c \in 1..Len(args.output_channels.lens) :
             UsizeLeq(ret, U(args.output_channels.lens[c]))

\* A fractional output_frame_count rounded up.
C2_Witness ==
    /\ op = "Stream::process"
    /\ outcome = "ok"
    /\ Floor(args.output_frame_count) # Ceil(args.output_frame_count)
    /\ ret = U(Ceil(args.output_frame_count))

\* C3: input_position() is the exact sum of the input_frame_count of the
\* process calls that returned.
C3_InputPositionIsExactSum ==
    (stream.status = "live" /\ stream.stream # NULL) =>
        /\ input_position >= 0
        /\ CIntAsUsize(input_position) = submitted

\* C4: a grain operation called out of the order preroll, then cycles of
\* specify_grain, analyse_grain, synthesise_grain, next, fails at once and
\* is not forwarded to the engine.
C4_OutOfOrderRejected ==
    (op \in GrainOps /\ ~InOrder(args.state, op))
        => (outcome = "panic" /\ calls = <<>>)

\* C5: Stretcher::new and Stream::new called with sample_rate == 0 or
\* num_channels == 0 return the argument's error, with no engine call made
\* and no engine instance created.
C5_ZeroArgumentIsError ==
    (op \in ConstructorOps /\ (args.sample_rate = U(0) \/ args.num_channels = 0)) =>
        /\ outcome = "err"
        /\ ret = IF args.sample_rate = U(0) THEN "Invalid sample rate"
                                            ELSE "Invalid channel count"
        /\ calls = <<>>
        /\ heap = <<>>
        /\ stretcher = NoStretcher
        /\ stream = NoStream

\* Stream::new handing on the channel count error of Stretcher::new.
C5_Witness ==
    /\ op = "Stream::new"
    /\ args.sample_rate # U(0)
    /\ args.num_channels = 0
    /\ outcome = "err"

\* C6: for every sample_rate > 0 and num_channels > 0 construction succeeds
\* (whenever the engine allocates the instance) and max_input_frame_count()
\* of the instance is > 0.
C6_ValidArgumentsConstruct ==
    (/\ op \in ConstructorOps
     /\ UsizeLess(U(0), args.sample_rate)
     /\ args.num_channels > 0
     /\ calls[1].result # NULL) =>
        /\ outcome = "ok"
        /\ UsizeLess(U(0), max_input_frame_count(Built))

\* C7: no Stretcher and no Stream holding a null handle is ever reachable.
C7_NoNullHandle ==
    /\ stretcher.status = "live" => stretcher.inner # NULL
    /\ stream.status = "live" =>
         (stream.stream # NULL /\ stream.stretcher.inner # NULL)

\* The engine instances a torn down owner had released, and the handles
\* the last operation used.
HandleCalls == {k \in 1..Len(calls) : "freed" \in DOMAIN calls[k]}

C9_InputPointers ==
    (op = "Stream::process" /\ calls # <<>>) =>
        IF ~args.input_channels.present
        THEN /\ calls[1].input_pointers.null
             /\ \A c \in 1..Len(stream.input_pointers) : stream.input_pointers[c] = NULL
        ELSE /\ ~calls[1].input_pointers.null
             /\ calls[1].input_pointers.array = stream.input_pointers
             /\ Len(stream.input_pointers) = Len(args.input_channels.lens)
             /\ \A c \in 1..Len(args.input_channels.lens) :
                  stream.input_pointers[c] = AddressOf(args.input_channels, c)

\* A mute block following a block that had input.
C9_Witness ==
    /\ op = "Stream::process"
    /\ outcome = "ok"
    /\ ~args.input_channels.present
    /\ nCalls = 2
    /\ submitted # UsizeAdd(args.input_frame_count, args.input_frame_count)

\* C10: latency compensation in the driver.  The discard budget is computed
\* once, from the latency reported after the first process call, as
\* latency / speed; every process call exposes its produced frames less
\* min(remaining budget, produced) and takes that amount off the budget,
\* which never goes below zero; so the frames discarded never exceed the
\* initial budget and no frame is exposed while budget remains.
C10_LatencyCompensation ==
    (drv.pc \in {"loop", "flush", "finish"} /\ drv.phase # "none") =>
        /\ drv.computed = 1
        /\ drv.budget_before.some
        /\ drv.remaining_latency_frames.some
        /\ LET skip == Min(drv.budget_before.value, drv.processed_frames)
           IN  /\ drv.exposed = drv.processed_frames - skip
               /\ drv.remaining_latency_frames.value = drv.budget_before.value - skip
        /\ drv.remaining_latency_frames.value >= 0
        /\ drv.discarded <= drv.initial_budget
        /\ drv.remaining_latency_frames.value > 0 => drv.exposed = 0

\* C12: on a freshly created stream, one process call with N input frames
\* and a fractional output_frame_count returns exactly
\* ceil(output_frame_count) and leaves input_position() = N.
C12_FirstBlock ==
    (/\ op = "Stream::process"
     /\ outcome = "ok"
     /\ nCalls = 1
     /\ Floor(args.output_frame_count) # Ceil(args.output_frame_count)) =>
        /\ ret = U(Ceil(args.output_frame_count))
        /\ input_position >= 0
        /\ CIntAsUsize(input_position) = args.input_frame_count

PositionLess(x, y) == ~IsNaN(x) /\ ~IsNaN(y) /\ x.half < y.half
PositionLeq(x, y) == ~IsNaN(x) /\ ~IsNaN(y) /\ x.half <= y.half

\* C14: analyse_grain called in order with data whose length is not the one
\* of the chunk the preceding specify_grain returned (on each channel, at
\* the given stride) fails at once and is not forwarded to the engine.
C14_DataLengthChecked ==
    (/\ op = "analyse_grain"
     /\ InOrder(args.state, op)
     /\ args.data_len #
          DataLen(stretcher.num_channels, args.channel_stride, ChunkLen(args.chunk))) =>
        (outcome = "panic" /\ calls = <<>>)

\* C15: the engine's analyseGrain receives the mute_head and mute_tail the
\* caller declares for the chunk it supplies.
C15_MuteCountsForwarded ==
    (op = "analyse_grain" /\ InOrder(args.state, op) /\ calls # <<>>) =>
        /\ calls[1].mute_frame_count_head = args.mute_head
        /\ calls[1].mute_frame_count_tail = args.mute_tail

\* C16: the InputChunk specify_grain returns for a grain of a protocol run
\* has a length max(0, end - begin) of at most max_input_frame_count().
C16_ChunkWithinMaxInput ==
    (op = "specify_grain" /\ InOrder(args.state, op)) =>
        UsizeLeq(U(ChunkLen(ret)), max_input_frame_count(stretcher))

\* A grain whose chunk is as long as max_input_frame_count() and starts
\* before the track.
C16_Witness ==
    /\ op = "specify_grain"
    /\ InOrder(args.state, op)
    /\ ret.begin < 0
    /\ ChunkLen(ret) > 0
    /\ U(ChunkLen(ret)) = max_input_frame_count(stretcher)

C20_NoPointerKept ==
    (op = "Stream::process" /\ outcome = "ok") =>
        /\ \A c \in 1..Len(stream.input_pointers) : stream.input_pointers[c] = NULL
        /\ \A c \in 1..Len(stream.output_pointers) : stream.output_pointers[c] = NULL

\* The operations that change the state of an instance.
StateChanging ==
    {"process", "preroll", "specify_grain", "analyse_grain", "synthesise_grain",
     "next", "drop"}

\* C21: no state-changing operation on a Stream or Stretcher (process,
\* preroll, specify_grain, analyse_grain, synthesise_grain, next,
\* destruction) runs while another thread is inside any operation on the
\* same instance.
C21_NoConcurrentMutation ==
    \A t \in 1..NumThreads, u \in 1..NumThreads :
        (/\ t # u
         /\ thr.running[t].method \in StateChanging
         /\ thr.running[u] # NoCall)
            => thr.running[t].object # thr.running[u].object

\* A thread is inside process on the Stream while another is inside next
\* on the Stretcher: each has its instance to itself.
C21_Witness ==
    /\ thr.running[1] = [object |-> "Stream", method |-> "process"]
    /\ thr.running[2] = [object |-> "Stretcher", method |-> "next"]

\* C22: the function table is initialized exactly once on first use: the
\* lookup is made once however many threads make their first use at the
\* same time, and every use observes the one table that lookup returned.
C22_InitializedOnce ==
    /\ table.lookups <= 1
    /\ \A r \in table.results :
         r.kind = "ok" => /\ table.lookups = 1
                          /\ table.once = "complete"
                          /\ r.table = table.value

\* Two threads made their first use together: one ran the lookup, the
\* other waited for it, and both observed the table.
C22_Witness ==
    /\ table.lookups = 1
    /\ \A t \in 1..NumThreads : table.user[t].seen = Observed(table.value)
    /\ \E t \in 1..NumThreads : table.user[t].waited

\* C23: after a failed initialization (a null table) every use surfaces
\* the same configuration error, and the lookup is not made again.
C23_SameErrorNoRetry ==
    table.once = "poisoned" =>
        /\ table.lookups = 1
        /\ \A r1 \in table.results, r2 \in table.results : r1 = r2

\* C24: the flush procedure terminates. It starts with a budget of
\* ceil(latency); every mute call it makes hands the engine at most one
\* input block; the frames handed over and the frames left always add up
\* to the budget; the loop goes on while frames are left and is over when
\* none are, with ceil(latency) mute frames submitted in all.
C24_FlushTerminates ==
    /\ [](drv.pc \in {"flush", "finish"} =>
            /\ drv.mute_submitted + drv.remaining_input_frames = drv.flush_budget
            /\ (drv.phase = "flush" =>
                  /\ calls[1].input_pointers.null
                  /\ calls[1].input_sample_count <= input_block_size
                  /\ (drv.pc = "flush") = (drv.remaining_input_frames > 0))
            /\ (drv.pc = "finish" => drv.mute_submitted = drv.flush_budget))
    /\ (drv.pc = "flush" ~> drv.pc # "flush")

\* The flush loop took two rounds, a whole block and a part of one.
C24_Witness ==
    /\ drv.pc = "finish"
    /\ drv.flush_budget > input_block_size
    /\ drv.mute_submitted = drv.flush_budget
    /\ calls[1].input_sample_count < input_block_size

\* C27: every process call of the file-streaming driver, in the main loop
\* and in the flush loop, satisfies the preconditions of process.
C27_DriverCallsValid ==
    (drv.pc # "idle" /\ op = "Stream::process") =>
        ProcessPreconditions(args, stream.stretcher.num_channels)

\* C25: after synthesise_grain the returned OutputChunk fits the planar
\* layout: each channel's range [n*channel_stride, n*channel_stride +
\* frame_count) lies inside output.data, and output.data does not reach
\* past the buffer the engine wrote the samples to.
C25_OutputChunkPlanar ==
    (op = "synthesise_grain" /\ outcome = "ok") =>
        /\ \A n \in 0..(stretcher.num_channels - 1) :
             UsizeLeq(U(n * AsI32(ret.channel_stride) + AsI32(ret.frame_count)),
                      ret.data_len)
        /\ UsizeLeq(ret.data_len, U(calls[1].filled.data.len))

\* C26: every (sample_rate, num_channels) pair Stretcher::new accepts
\* reaches the engine's create as the same positive 32-bit numbers.
C26_CreateReceivesPositive ==
    (op \in ConstructorOps /\ calls # <<>>) =>
        /\ calls[1].sample_rates.input > 0
        /\ calls[1].sample_rates.output > 0
        /\ calls[1].channel_count > 0
        /\ U(calls[1].sample_rates.input) = args.sample_rate
        /\ U(calls[1].sample_rates.output) = args.sample_rate
        /\ calls[1].channel_count = args.num_channels

\* C28: a process call that fails one of its precondition checks does not
\* reach the engine's block driver, and input_position(), output_position()
\* and latency() are after it what they were before.
C28_FailedCallChangesNothing ==
    [][(/\ op' = "Stream::process"
        /\ <<op, args, outcome, ret, calls, stream>>' # <<op, args, outcome, ret, calls, stream>>
        /\ ~ProcessPreconditions(args', stream.stretcher.num_channels)) =>
           /\ calls' = <<>>
           /\ input_position' = input_position
           /\ output_position' = output_position
           /\ latency' = latency]_vars

\* A block was processed, and the next call fails the output length check.
C28_Witness ==
    /\ op = "Stream::process"
    /\ outcome = "panic"
    /\ nCalls = 1
    /\ engOut.half > 0
    /\ ret = "output channel is less than required output frame count"

\* What the process loop alone does (not a claim: the part of C10 the
\* driver keeps).
MainLoopCompensation ==
    (drv.pc \in {"loop", "flush", "finish"} /\ drv.phase = "main") =>
        /\ drv.computed = 1
        /\ LET skip == Min(drv.budget_before.value, drv.processed_frames)
           IN  /\ drv.exposed = drv.processed_frames - skip
               /\ drv.remaining_latency_frames.value = drv.budget_before.value - skip
        /\ drv.remaining_latency_frames.value >= 0
        /\ drv.discarded <= drv.initial_budget
        /\ drv.remaining_latency_frames.value > 0 => drv.exposed = 0

====
